---- MODULE Spec2Model ----
(***************************************************************************)
(* A model of scatter_svg/plot.py: format detection, JSON/CSV loading,     *)
(* plot creation and figure saving.  Text is modelled as sequences of      *)
(* one-character strings so that suffix extraction, lower-casing,          *)
(* stripping, JSON decoding and CSV splitting are computed, not assumed.   *)
(***************************************************************************)
EXTENDS Integers, Sequences, FiniteSets, TLC

VARIABLES op, arg, ret, calls, rc_style

vars == <<op, arg, ret, calls, rc_style>>

(***************************************************************************)
(* Bounds of the model.                                                    *)
(***************************************************************************)
MaxCols == 3
MaxRows == 2
MaxPad == 1
MaxPoints == 2

(***************************************************************************)
(* Characters and strings (str methods used by plot.py).                   *)
(***************************************************************************)
UpperChars == <<"A","B","C","D","E","F","G","H","I","J","K","L","M",
                "N","O","P","Q","R","S","T","U","V","W","X","Y","Z">>
LowerChars == <<"a","b","c","d","e","f","g","h","i","j","k","l","m",
                "n","o","p","q","r","s","t","u","v","w","x","y","z">>
Digits == {"0","1","2","3","4","5","6","7","8","9"}

\* str.lower(), one character
LowerChar(c) ==
  IF \E i \in 1..26 : UpperChars[i] = c
  THEN LowerChars[CHOOSE i \in 1..26 : UpperChars[i] = c]
  ELSE c

\* a lower() that leaves the case alone
lower_identity(s) == s

\* str.lower()
lower(s) == [i \in 1..Len(s) |-> LowerChar(s[i])]

\* s[i:j] with 1-based inclusive start i and exclusive end j
Slice(s, i, j) == [k \in 1..(j - i) |-> s[i + k - 1]]

\* s.startswith(t, i) with 1-based i
HasAt(s, i, t) ==
  /\ i + Len(t) - 1 <= Len(s)
  /\ \A k \in 1..Len(t) : s[i + k - 1] = t[k]

\* t in s  (substring containment)
Contains(s, t) == \E i \in 1..(Len(s) - Len(t) + 1) : HasAt(s, i, t)

\* s.rfind(c): the last index of c in s, 0 when absent (Python: -1)
RFind(s, c) ==
  IF \E i \in 1..Len(s) : s[i] = c
  THEN CHOOSE i \in 1..Len(s) : s[i] = c /\ \A j \in (i+1)..Len(s) : s[j] # c
  ELSE 0

\* characters removed by str.strip() that occur in the modelled texts
StripWs == {" ", "\n", "\t", "\r", "\f"}
\* characters skipped by the json decoder (json.decoder.WHITESPACE)
JsonWs == {" ", "\n", "\t", "\r"}

RECURSIVE LStrip(_)
LStrip(s) == IF s # <<>> /\ s[1] \in StripWs THEN LStrip(Tail(s)) ELSE s
RECURSIVE RStrip(_)
RStrip(s) ==
  IF s # <<>> /\ s[Len(s)] \in StripWs THEN RStrip(SubSeq(s, 1, Len(s) - 1)) ELSE s
\* a strip() that leaves the text alone
strip_identity(s) == s

\* str.strip()
strip(s) == RStrip(LStrip(s))

(***************************************************************************)
(* pathlib.Path(filepath).suffix                                           *)
(***************************************************************************)
\* Path.name: the final path component
PathName(p) == Slice(p, RFind(p, "/") + 1, Len(p) + 1)

\* Path.suffix: from the last dot of the name, unless the dot is the first
\* or the last character of the name
PathSuffix(p) ==
  LET name == PathName(p)
      i == RFind(name, ".")
  IN IF 1 < i /\ i < Len(name) THEN Slice(name, i, Len(name) + 1) ELSE <<>>

(***************************************************************************)
(* json.loads: the decoder of the standard library, on character           *)
(* sequences.  A value is a record [kind, text, val]: text holds the       *)
(* characters of a string, the lexeme of a number or the name of a         *)
(* literal, val the elements of an array or the items of an object.        *)
(***************************************************************************)
JLit(name) == [kind |-> "lit", text |-> <<name>>, val |-> <<>>]
JNum(lexeme) == [kind |-> "num", text |-> lexeme, val |-> <<>>]
JStr(chars) == [kind |-> "str", text |-> chars, val |-> <<>>]
JArr(items) == [kind |-> "arr", text |-> <<>>, val |-> items]
JObj(items) == [kind |-> "obj", text |-> <<>>, val |-> items]
\* an item of an object: its key and its value
JItem(key, value) == [kind |-> "item", text |-> key, val |-> <<value>>]
ItemKey(item) == item.text
ItemValue(item) == item.val[1]
\* no value (Python: nothing was returned or passed)
NoValue == [kind |-> "none", text |-> <<>>, val |-> <<>>]

JFail == [ok |-> FALSE, val |-> NoValue, end |-> 0]
JOk(v, e) == [ok |-> TRUE, val |-> v, end |-> e]

\* the index after the longest run of characters of a set that starts at i
SkipRun(s, i, chars) ==
  IF i > Len(s) THEN i
  ELSE CHOOSE j \in i..(Len(s) + 1) :
         /\ \A k \in i..(j - 1) : s[k] \in chars
         /\ j = Len(s) + 1 \/ s[j] \notin chars

\* WHITESPACE.match(s, i).end()
SkipWs(s, i) == SkipRun(s, i, JsonWs)

\* the end of the match of \d* at i
SkipDigits(s, i) == SkipRun(s, i, Digits)

\* NUMBER_RE = (-?(?:0|[1-9]\d*))(\.\d+)?([eE][-+]?\d+)? ; each operator gives
\* the index after its group, 0 when the number does not match.
\* the integer part, from the index j after the optional sign
IntEnd(s, j) ==
  IF j > Len(s) THEN 0
  ELSE IF s[j] = "0" THEN j + 1
  ELSE IF s[j] \in Digits THEN SkipDigits(s, j)
  ELSE 0

\* the optional fraction, from the end e of the integer part
FracEnd(s, e) ==
  IF e # 0 /\ e + 1 <= Len(s) /\ s[e] = "." /\ s[e + 1] \in Digits
  THEN SkipDigits(s, e + 1) ELSE e

\* the optional exponent, from the end e of the fraction
ExpEnd(s, e) ==
  IF e = 0 \/ e > Len(s) \/ s[e] \notin {"e", "E"} THEN e
  ELSE LET k == IF e + 1 <= Len(s) /\ s[e + 1] \in {"+", "-"} THEN e + 2 ELSE e + 1
       IN IF k <= Len(s) /\ s[k] \in Digits THEN SkipDigits(s, k) ELSE e

\* the index after the match of NUMBER_RE that starts at i, or 0
MatchNumber(s, i) ==
  ExpEnd(s, FracEnd(s, IntEnd(s, IF i <= Len(s) /\ s[i] = "-" THEN i + 1 ELSE i)))

\* the number whose lexeme is s[i:e]
ScanNumber(s, i, e) == JOk(JNum(Slice(s, i, e)), e)

\* characters that end the plain part of a string: the closing quote and the
\* control characters, which a strict decoder rejects
StringStops == {"\"", "\n", "\t", "\r", "\f"}

\* py_scanstring (strict) from index i, the index after the opening quote:
\* the characters up to the closing quote; a control character or an
\* unterminated string is an error.  The modelled texts hold no backslash.
ScanString(s, i) ==
  LET j == SkipRun(s, i, { s[k] : k \in 1..Len(s) } \ StringStops) IN
  IF j > Len(s) THEN JFail
  ELSE IF s[j] = "\"" THEN JOk(JStr(Slice(s, i, j)), j + 1)
  ELSE JFail

\* dict(pairs): a repeated key keeps its first position and its last value
DictSet(items, k, v) ==
  IF \E n \in 1..Len(items) : ItemKey(items[n]) = k
  THEN [n \in 1..Len(items) |-> IF ItemKey(items[n]) = k THEN JItem(k, v) ELSE items[n]]
  ELSE Append(items, JItem(k, v))

RECURSIVE ScanOnce(_, _)
RECURSIVE ArrayItems(_, _, _)
RECURSIVE ObjectItems(_, _, _)

\* JSONArray after the first item position: i is the index of the next value
ArrayItems(s, i, acc) ==
  LET r == ScanOnce(s, i) IN
  IF ~r.ok THEN JFail
  ELSE LET j == SkipWs(s, r.end)
           items == Append(acc, r.val)
       IN IF j > Len(s) THEN JFail
          ELSE IF s[j] = "]" THEN JOk(JArr(items), j + 1)
          ELSE IF s[j] = "," THEN ArrayItems(s, SkipWs(s, j + 1), items)
          ELSE JFail

\* JSONArray: i is the index after the opening bracket
JSONArray(s, i) ==
  LET j == SkipWs(s, i) IN
  IF j <= Len(s) /\ s[j] = "]" THEN JOk(JArr(<<>>), j + 1)
  ELSE ArrayItems(s, j, <<>>)

\* JSONObject item loop: i is the index of the opening quote of the next key
ObjectItems(s, i, acc) ==
  IF i > Len(s) \/ s[i] # "\"" THEN JFail
  ELSE LET key == ScanString(s, i + 1) IN
    IF ~key.ok THEN JFail
    ELSE LET c == SkipWs(s, key.end) IN
      IF c > Len(s) \/ s[c] # ":" THEN JFail
      ELSE LET r == ScanOnce(s, SkipWs(s, c + 1)) IN
        IF ~r.ok THEN JFail
        ELSE LET j == SkipWs(s, r.end)
                 items == DictSet(acc, key.val.text, r.val)
             IN IF j > Len(s) THEN JFail
                ELSE IF s[j] = "}" THEN JOk(JObj(items), j + 1)
                ELSE IF s[j] = "," THEN ObjectItems(s, SkipWs(s, j + 1), items)
                ELSE JFail

\* JSONObject: i is the index after the opening brace
JSONObject(s, i) ==
  LET j == SkipWs(s, i) IN
  IF j <= Len(s) /\ s[j] = "}" THEN JOk(JObj(<<>>), j + 1)
  ELSE ObjectItems(s, j, <<>>)

\* json.scanner.py_make_scanner._scan_once
ScanOnce(s, i) ==
  IF i > Len(s) THEN JFail
  ELSE IF s[i] = "\"" THEN ScanString(s, i + 1)
  ELSE IF s[i] = "{" THEN JSONObject(s, i + 1)
  ELSE IF s[i] = "[" THEN JSONArray(s, i + 1)
  ELSE IF HasAt(s, i, <<"n","u","l","l">>) THEN JOk(JLit("null"), i + 4)
  ELSE IF HasAt(s, i, <<"t","r","u","e">>) THEN JOk(JLit("true"), i + 4)
  ELSE IF HasAt(s, i, <<"f","a","l","s","e">>) THEN JOk(JLit("false"), i + 5)
  ELSE IF MatchNumber(s, i) # 0 THEN ScanNumber(s, i, MatchNumber(s, i))
  ELSE IF HasAt(s, i, <<"N","a","N">>) THEN JOk(JLit("NaN"), i + 3)
  ELSE IF HasAt(s, i, <<"I","n","f","i","n","i","t","y">>) THEN JOk(JLit("Infinity"), i + 8)
  ELSE IF HasAt(s, i, <<"-","I","n","f","i","n","i","t","y">>) THEN JOk(JLit("-Infinity"), i + 9)
  ELSE JFail

\* json.loads(s): [ok, val]; ok = FALSE stands for json.JSONDecodeError
json_loads(s) ==
  LET r == ScanOnce(s, SkipWs(s, 1)) IN
  IF r.ok /\ SkipWs(s, r.end) = Len(s) + 1 THEN [ok |-> TRUE, val |-> r.val]
  ELSE [ok |-> FALSE, val |-> NoValue]

(***************************************************************************)
(* Results of a call, and the calls it makes on its collaborators.  A      *)
(* result is [kind, exc, fmt, data, fig]: kind is "return" or "raise", exc *)
(* the exception raised, fmt a returned format name, data a returned       *)
(* value, fig a returned figure.  A logged call is [fn, text, vals, nums,  *)
(* opts]: the function and its string, value, number and keyword           *)
(* arguments.                                                              *)
(***************************************************************************)
NoFig == [figsize |-> <<0, 0>>, style |-> ""]
NoResult == [kind |-> "none", exc |-> "", fmt |-> "", data |-> NoValue, fig |-> NoFig]
ReturnNone == [NoResult EXCEPT !.kind = "return"]
ReturnData(v) == [NoResult EXCEPT !.kind = "return", !.data = v]
ReturnFormat(f) == [NoResult EXCEPT !.kind = "return", !.fmt = f]
ReturnFig(fig) == [NoResult EXCEPT !.kind = "return", !.fig = fig]
Raise(e) == [NoResult EXCEPT !.kind = "raise", !.exc = e]
Call(fn, text, vals, nums, opts) ==
  [fn |-> fn, text |-> text, vals |-> vals, nums |-> nums, opts |-> opts]
\* a call whose only argument is a path or a text
CallOn(fn, text) == Call(fn, text, <<>>, <<>>, <<>>)
Outcome(r, cs) == [ret |-> r, calls |-> cs]

\* the number of calls of fn in a call log
RECURSIVE CountCalls(_, _)
CountCalls(cs, fn) ==
  IF cs = <<>> THEN 0
  ELSE (IF Head(cs).fn = fn THEN 1 ELSE 0) + CountCalls(Tail(cs), fn)

(***************************************************************************)
(* pandas.read_csv with its defaults (comma separator, first non-blank     *)
(* line is the header, blank lines skipped, no quoting in the modelled     *)
(* texts) and the DataFrame it returns: [columns, rows].                   *)
(***************************************************************************)
\* str.split(sep) on a character sequence, for a one-character separator:
\* the fields between the occurrences of sep
Split(s, sep) ==
  LET cuts == { i \in 1..Len(s) : s[i] = sep }
      n == Cardinality(cuts)
      Cut(k) == IF k = 0 THEN 0
                ELSE IF k = n + 1 THEN Len(s) + 1
                ELSE CHOOSE i \in cuts : Cardinality({ j \in cuts : j < i }) = k - 1
  IN [k \in 1..(n + 1) |-> Slice(s, Cut(k - 1) + 1, Cut(k))]

\* the non-blank lines of a text
Lines(s) == SelectSeq(Split(s, "\n"), LAMBDA l : l # <<>>)

DigitChar(n) == <<"0","1","2","3","4","5","6","7","8","9">>[n + 1]

\* an empty header field is named "Unnamed: <index>", index counted from 0
HeaderName(field, i) ==
  IF field = <<>> THEN <<"U","n","n","a","m","e","d",":"," ", DigitChar(i - 1)>> ELSE field

\* the number of earlier columns of a header that carry the same name
Earlier(names, i) == Cardinality({j \in 1..(i - 1) : names[j] = names[i]})

\* duplicate header names are made unique: x, x.1, x.2, ...
MangleDupes(names) ==
  [i \in 1..Len(names) |->
     IF Earlier(names, i) = 0 THEN names[i]
     ELSE names[i] \o <<".", DigitChar(Earlier(names, i))>>]

\* a cell is numeric when the whole cell is one number
IsNumeric(cell) == cell # <<>> /\ MatchNumber(cell, 1) = Len(cell) + 1

\* the value of a cell of column c: a number when every cell of the column
\* is numeric, NaN when the cell is missing or empty, a string otherwise
CellValue(table, r, c) ==
  IF c > Len(table[r]) \/ table[r][c] = <<>> THEN JLit("NaN")
  ELSE IF \A q \in 1..Len(table) : c > Len(table[q]) \/ table[q][c] = <<>> \/ IsNumeric(table[q][c])
       THEN JNum(table[r][c])
       ELSE JStr(table[r][c])

read_csv(text) ==
  LET lines == Lines(text) IN
  IF lines = <<>> THEN [ok |-> FALSE, exc |-> "EmptyDataError", df |-> <<>>]
  ELSE
    LET header == Split(lines[1], ",")
        columns == MangleDupes([i \in 1..Len(header) |-> HeaderName(header[i], i)])
        table == [r \in 1..(Len(lines) - 1) |-> Split(lines[r + 1], ",")]
    IN IF \E r \in 1..Len(table) : Len(table[r]) > Len(columns)
       THEN [ok |-> FALSE, exc |-> "ParserError", df |-> <<>>]
       ELSE [ok |-> TRUE, exc |-> "",
             df |-> [columns |-> columns,
                     rows |-> [r \in 1..Len(table) |->
                                 [c \in 1..Len(columns) |-> CellValue(table, r, c)]]]]

\* the position of column name c in df.columns (names are unique)
ColumnIndex(columns, c) == CHOOSE i \in 1..Len(columns) : columns[i] = c

\* row[col] for a row of df.iterrows()
RowValue(df, r, col) == df.rows[r][ColumnIndex(df.columns, col)]


(***************************************************************************)
(* The loaders of plot.py.  A file is [path, status, content] with status  *)
(* "ok", "open_fails" (open raises OSError) or "read_fails" (read raises). *)
(***************************************************************************)
S_label == <<"l","a","b","e","l">>
S_name == <<"n","a","m","e">>
S_x == <<"x">>
S_speed == <<"s","p","e","e","d">>
S_time == <<"t","i","m","e">>
S_y == <<"y">>
S_quality == <<"q","u","a","l","i","t","y">>
S_tier == <<"t","i","e","r">>
S_points == <<"p","o","i","n","t","s">>
S_xlabel == <<"x","l","a","b","e","l">>
S_ylabel == <<"y","l","a","b","e","l">>
S_title == <<"t","i","t","l","e">>
S_ScatterPlot == <<"S","c","a","t","t","e","r"," ","P","l","o","t">>
DotCsv == <<".","c","s","v">>
DotJson == <<".","j","s","o","n">>

\* next((c for c in columns if match(c)), columns[k]), with matches the set
\* of the columns that satisfy the condition: the default columns[k] is
\* evaluated before the search, so a missing column k is an IndexError
\* whether or not a column matches
NextOr(columns, matches, k) ==
  IF k > Len(columns) THEN [ok |-> FALSE, val |-> <<>>]
  ELSE IF \E i \in 1..Len(columns) : columns[i] \in matches
  THEN [ok |-> TRUE,
        val |-> columns[CHOOSE i \in 1..Len(columns) :
                          columns[i] \in matches /\ \A j \in 1..(i - 1) : columns[j] \notin matches]]
  ELSE [ok |-> TRUE, val |-> columns[k]]

\* the columns of a data frame, as a set
Columns(df) == { df.columns[i] : i \in 1..Len(df.columns) }

\* a point with the x and y values of the row exchanged
PointOf_swapped(df, r, label_col, x_col, y_col) ==
  JObj(<< JItem(S_label, RowValue(df, r, label_col)),
          JItem(S_x, RowValue(df, r, y_col)),
          JItem(S_y, RowValue(df, r, x_col)) >>)

\* {"label": row[label_col], "x": row[x_col], "y": row[y_col]} for row r
PointOf(df, r, label_col, x_col, y_col) ==
  JObj(<< JItem(S_label, RowValue(df, r, label_col)),
          JItem(S_x, RowValue(df, r, x_col)),
          JItem(S_y, RowValue(df, r, y_col)) >>)

\* a points dict without a title
PointsDict_untitled(df, label_col, x_col, y_col) ==
  JObj(<< JItem(S_points,
            JArr([r \in 1..Len(df.rows) |-> PointOf(df, r, label_col, x_col, y_col)])),
          JItem(S_xlabel, JStr(x_col)),
          JItem(S_ylabel, JStr(y_col)) >>)

\* the dict built from a data frame and the three chosen columns
PointsDict(df, label_col, x_col, y_col) ==
  JObj(<< JItem(S_points,
            JArr([r \in 1..Len(df.rows) |-> PointOf(df, r, label_col, x_col, y_col)])),
          JItem(S_xlabel, JStr(x_col)),
          JItem(S_ylabel, JStr(y_col)),
          JItem(S_title, JStr(S_ScatterPlot)) >>)

csv_label_match(c) == Contains(lower(c), S_label) \/ Contains(lower(c), S_name)

\* an x match that does not lower-case the column name
csv_x_match_case_sensitive(c) ==
  Contains(c, S_x) \/ Contains(c, S_speed) \/ Contains(c, S_time)

csv_x_match(c) ==
  Contains(lower(c), S_x) \/ Contains(lower(c), S_speed) \/ Contains(lower(c), S_time)
\* a y match that looks for the substrings of x
csv_y_match_as_x(c) ==
  Contains(lower(c), S_x) \/ Contains(lower(c), S_speed) \/ Contains(lower(c), S_time)

csv_y_match(c) ==
  Contains(lower(c), S_y) \/ Contains(lower(c), S_quality) \/ Contains(lower(c), S_tier)

\* the three column choices of load_csv_file, in evaluation order
csv_columns(df) ==
  LET label_col == NextOr(df.columns, {c \in Columns(df) : csv_label_match(c)}, 1)
      x_col == NextOr(df.columns, {c \in Columns(df) : csv_x_match(c)}, 2)
      y_col == NextOr(df.columns, {c \in Columns(df) : csv_y_match(c)}, 3)
  IN [ok |-> label_col.ok /\ x_col.ok /\ y_col.ok,
      label_col |-> label_col.val, x_col |-> x_col.val, y_col |-> y_col.val]

load_csv_file(file) ==
  LET read == <<CallOn("read_csv", file.path)>> IN
  IF file.status = "open_fails" THEN Outcome(Raise("OSError"), read)
  ELSE IF file.status = "read_fails" THEN Outcome(Raise("UnicodeDecodeError"), read)
  ELSE
    LET r == read_csv(file.content) IN
    IF ~r.ok THEN Outcome(Raise(r.exc), read)
    ELSE
      LET cols == csv_columns(r.df) IN
      IF ~cols.ok THEN Outcome(Raise("IndexError"), read)
      ELSE Outcome(ReturnData(PointsDict(r.df, cols.label_col, cols.x_col, cols.y_col)), read)

\* a load_json_file that swallows the decode error
load_json_file_lenient(file) ==
  IF file.status = "open_fails" THEN Outcome(Raise("OSError"), <<CallOn("open", file.path)>>)
  ELSE IF file.status = "read_fails"
  THEN Outcome(Raise("UnicodeDecodeError"), <<CallOn("open", file.path)>>)
  ELSE Outcome(ReturnData(json_loads(file.content).val), <<CallOn("open", file.path)>>)

load_json_file(file) ==
  IF file.status = "open_fails" THEN Outcome(Raise("OSError"), <<CallOn("open", file.path)>>)
  ELSE IF file.status = "read_fails"
  THEN Outcome(Raise("UnicodeDecodeError"), <<CallOn("open", file.path)>>)
  ELSE
    LET r == json_loads(file.content) IN
    IF r.ok THEN Outcome(ReturnData(r.val), <<CallOn("open", file.path)>>)
    ELSE Outcome(Raise("JSONDecodeError"), <<CallOn("open", file.path)>>)

stdin_label_match(c) == Contains(lower(c), S_label) \/ Contains(lower(c), S_name)
\* an x match of load_stdin that leaves out "time"
stdin_x_match_no_time(c) == Contains(lower(c), S_x) \/ Contains(lower(c), S_speed)

stdin_x_match(c) ==
  Contains(lower(c), S_x) \/ Contains(lower(c), S_speed) \/ Contains(lower(c), S_time)
stdin_y_match(c) ==
  Contains(lower(c), S_y) \/ Contains(lower(c), S_quality) \/ Contains(lower(c), S_tier)

\* the three column choices of the CSV branch of load_stdin
stdin_columns(df) ==
  LET label_col == NextOr(df.columns, {c \in Columns(df) : stdin_label_match(c)}, 1)
      x_col == NextOr(df.columns, {c \in Columns(df) : stdin_x_match(c)}, 2)
      y_col == NextOr(df.columns, {c \in Columns(df) : stdin_y_match(c)}, 3)
  IN [ok |-> label_col.ok /\ x_col.ok /\ y_col.ok,
      label_col |-> label_col.val, x_col |-> x_col.val, y_col |-> y_col.val]

\* a load_stdin that tries CSV first
stdin_branch_csv_first(stdin_content) ==
  IF read_csv(stdin_content).ok THEN "csv" ELSE "json"

\* the branch of load_stdin taken for a content: JSON first, CSV on failure
stdin_branch(stdin_content) == IF json_loads(stdin_content).ok THEN "json" ELSE "csv"

load_stdin(stdin_content) ==
  LET read == <<CallOn("sys.stdin.read", <<>>)>>
      data == json_loads(stdin_content)
  IN
  IF stdin_branch(stdin_content) = "json" THEN Outcome(ReturnData(data.val), read)
  ELSE
    LET r == read_csv(stdin_content)
        parsed == read \o <<CallOn("read_csv", stdin_content)>>
    IN
    IF ~r.ok THEN Outcome(Raise(r.exc), parsed)
    ELSE
      LET cols == stdin_columns(r.df) IN
      IF ~cols.ok THEN Outcome(Raise("IndexError"), parsed)
      ELSE Outcome(ReturnData(PointsDict(r.df, cols.label_col, cols.x_col, cols.y_col)), parsed)

detect_file_format(file) ==
  LET suffix == lower(PathSuffix(file.path)) IN
  IF suffix = DotCsv THEN Outcome(ReturnFormat("csv"), <<>>)
  ELSE IF suffix = DotJson THEN Outcome(ReturnFormat("json"), <<>>)
  ELSE IF file.status = "open_fails" THEN Outcome(ReturnFormat("csv"), <<CallOn("open", file.path)>>)
  ELSE IF file.status = "read_fails" THEN Outcome(ReturnFormat("csv"), <<CallOn("open", file.path)>>)
  ELSE IF json_loads(strip(file.content)).ok
  THEN Outcome(ReturnFormat("json"), <<CallOn("open", file.path)>>)
  ELSE Outcome(ReturnFormat("csv"), <<CallOn("open", file.path)>>)

\* a load_data_file that falls back to the CSV loader when JSON loading raises
load_data_file_fallback(file) ==
  LET file_format == detect_file_format(file)
      first == IF file_format.ret.fmt = "csv" THEN load_csv_file(file) ELSE load_json_file(file)
      loader == IF file_format.ret.fmt = "csv" THEN "load_csv_file" ELSE "load_json_file"
      again == file_format.ret.fmt # "csv" /\ first.ret.kind = "raise"
  IN Outcome(IF again THEN load_csv_file(file).ret ELSE first.ret,
             <<CallOn("detect_file_format", file.path)>> \o file_format.calls
               \o <<CallOn(loader, file.path)>> \o first.calls
               \o (IF again THEN <<CallOn("load_csv_file", file.path)>> ELSE <<>>))

load_data_file(file) ==
  LET file_format == detect_file_format(file)
      loaded == IF file_format.ret.fmt = "csv" THEN load_csv_file(file) ELSE load_json_file(file)
      loader == IF file_format.ret.fmt = "csv" THEN "load_csv_file" ELSE "load_json_file"
  IN Outcome(loaded.ret,
             <<CallOn("detect_file_format", file.path)>> \o file_format.calls
               \o <<CallOn(loader, file.path)>> \o loaded.calls)

(***************************************************************************)
(* create_scatter_plot and save_figure.  The calls on matplotlib and       *)
(* adjustText are logged in call order; rc_style is the style matplotlib   *)
(* has in effect, which plt.style.use changes for the process.             *)
(***************************************************************************)
S_X == <<"X">>
S_Y == <<"Y">>

\* a dict.get that ignores the dict
dict_get_default(d, k, default) == default

\* d.get(k, default)
dict_get(d, k, default) ==
  IF \E i \in 1..Len(d.val) : ItemKey(d.val[i]) = k
  THEN ItemValue(d.val[CHOOSE i \in 1..Len(d.val) : ItemKey(d.val[i]) = k])
  ELSE default

\* d[k], for a dict d that has the key
dict_item(d, k) == ItemValue(d.val[CHOOSE i \in 1..Len(d.val) : ItemKey(d.val[i]) = k])

\* d[k] is defined: d is a dict that has the key
has_item(d, k) == d.kind = "obj" /\ \E i \in 1..Len(d.val) : ItemKey(d.val[i]) = k

\* y_values.index(y), counted from 0
ListIndex(values, v) ==
  (CHOOSE i \in 1..Len(values) : values[i] = v /\ \A j \in 1..(i - 1) : values[j] # v) - 1

\* set(values)
ListSet(values) == { values[i] : i \in 1..Len(values) }

\* the integer a lexeme of digits denotes; the sort key of a y value
RECURSIVE IntOf(_)
IntOf(chars) ==
  IF chars = <<>> THEN 0
  ELSE 10 * IntOf(SubSeq(chars, 1, Len(chars) - 1))
         + (CHOOSE n \in 0..9 : DigitChar(n) = chars[Len(chars)])

IsIntLexeme(chars) == chars # <<>> /\ \A i \in 1..Len(chars) : chars[i] \in Digits

\* sorted(values), for a set of numbers written as integers
RECURSIVE Sorted(_)
Sorted(values) ==
  IF values = {} THEN <<>>
  ELSE LET least == CHOOSE v \in values : \A w \in values : IntOf(v.text) <= IntOf(w.text)
       IN <<least>> \o Sorted(values \ {least})

\* the colour-map positions of the points: for each point the index used for
\* its y, then the number of distinct y values it is divided by
PointColors(y_values) ==
  [i \in 1..(2 * Len(y_values)) |->
     IF i % 2 = 1 THEN ListIndex(y_values, y_values[(i + 1) \div 2])
     ELSE Cardinality(ListSet(y_values))]

\* f"Tier {int(y)}" if y == int(y) else str(y), for a number y
TickLabel(y) ==
  IF IsIntLexeme(y.text) THEN JStr(<<"T","i","e","r"," ">> \o y.text) ELSE JStr(y.text)

\* a style application that does not except 'default'
StyleCalls_always(style) == <<Call("plt.style.use", <<>>, <<>>, <<>>, <<style>>)>>

\* if style != "default": plt.style.use(style)
StyleCalls(style) ==
  IF style # "default" THEN <<Call("plt.style.use", <<>>, <<>>, <<>>, <<style>>)>> ELSE <<>>

\* a label placed at (y, x)
AxText_swapped(x, y, label) ==
  Call("ax.text", <<>>, <<y, x, label>>, <<>>, <<"center", "center">>)

\* ax.text(x, y, label, fontsize=8, ha="center", va="center", bbox=...)
AxText(x, y, label) == Call("ax.text", <<>>, <<x, y, label>>, <<>>, <<"center", "center">>)

create_scatter_plot(data, figsize, style, rc) ==
  LET styled == StyleCalls(style)
      rc1 == IF style # "default" THEN style ELSE rc
      fig == [figsize |-> figsize, style |-> rc1]
      subplots == styled \o <<Call("plt.subplots", <<>>, <<>>, figsize, <<>>)>>
  IN
  IF ~has_item(data, S_points)
  THEN [ret |-> Raise(IF data.kind = "obj" THEN "KeyError" ELSE "TypeError"),
        calls |-> subplots, rc |-> rc1]
  ELSE
    LET points == dict_item(data, S_points).val
        x_values == [i \in 1..Len(points) |-> dict_item(points[i], S_x)]
        y_values == [i \in 1..Len(points) |-> dict_item(points[i], S_y)]
        labels == [i \in 1..Len(points) |-> dict_item(points[i], S_label)]
        unique_y == Sorted(ListSet(y_values))
        discrete == Len(unique_y) <= 10
        text_calls == [i \in 1..Len(points) |-> AxText(x_values[i], y_values[i], labels[i])]
        texts == [i \in 1..Len(points) |-> JArr(text_calls[i].vals)]
    IN [ret |-> ReturnFig(fig),
        rc |-> rc1,
        calls |->
          subplots
            \o <<Call("ax.scatter", <<>>, <<JArr(x_values), JArr(y_values)>>,
                      IF discrete THEN PointColors(y_values) ELSE <<>>,
                      IF discrete THEN <<"viridis">> ELSE <<"steelblue">>)>>
            \o text_calls
            \o <<Call("adjust_text", <<>>, texts, <<500>>, <<>>),
                 Call("ax.set_xlabel", <<>>, <<dict_get(data, S_xlabel, JStr(S_X))>>, <<>>, <<>>),
                 Call("ax.set_ylabel", <<>>, <<dict_get(data, S_ylabel, JStr(S_Y))>>, <<>>, <<>>),
                 Call("ax.set_title", <<>>, <<dict_get(data, S_title, JStr(S_ScatterPlot))>>,
                      <<>>, <<>>),
                 CallOn("ax.grid", <<>>),
                 CallOn("ax.set_axisbelow", <<>>)>>
            \o (IF discrete
                THEN <<Call("ax.set_yticks", <<>>, unique_y, <<>>, <<>>),
                       Call("ax.set_yticklabels", <<>>,
                            [i \in 1..Len(unique_y) |-> TickLabel(unique_y[i])], <<>>, <<>>)>>
                ELSE <<>>)
            \o <<CallOn("plt.tight_layout", <<>>)>>]

\* what Figure.savefig writes into its target for a format: the SVG backend
\* writes text, the PNG and PDF backends write bytes
RenderKind(format) == IF format = "svg" THEN "text" ELSE "bytes"

\* no output path: None or the empty string
NoPath == <<>>

\* fig.savefig(target, format=format, dpi=dpi, bbox_inches="tight"); target
\* is "file" with a path, or the buffer class "BytesIO" or "StringIO"
SaveFig(target, path, format, dpi) == Call("fig.savefig", path, <<>>, <<dpi>>, <<target, format>>)

save_figure(fig, output_path, format, dpi) ==
  IF output_path # NoPath
  THEN Outcome(ReturnNone, <<SaveFig("file", output_path, format, dpi)>>)
  ELSE IF format = "png"
  THEN Outcome(ReturnNone,
               <<SaveFig("BytesIO", <<>>, format, dpi),
                 Call("sys.stdout.buffer.write", <<>>, <<>>, <<>>, <<RenderKind(format)>>)>>)
  ELSE IF RenderKind(format) = "text"
  THEN Outcome(ReturnNone,
               <<SaveFig("StringIO", <<>>, format, dpi),
                 Call("sys.stdout.write", <<>>, <<>>, <<>>, <<RenderKind(format)>>)>>)
  ELSE \* bytes written into a StringIO: savefig raises TypeError
       Outcome(Raise("TypeError"), <<SaveFig("StringIO", <<>>, format, dpi)>>)

(***************************************************************************)
(* main.  Its log holds the calls main makes, each followed by the calls   *)
(* made inside it.  An option that is not given is "" (argparse: None);    *)
(* an input that is not given is the empty path.                           *)
(***************************************************************************)
\* the characters of a format name
FormatText(name) ==
  CASE name = "svg" -> <<"s","v","g">>
    [] name = "png" -> <<"p","n","g">>
    [] name = "pdf" -> <<"p","d","f">>
    [] name = "jpg" -> <<"j","p","g">>
    [] OTHER -> <<>>

\* the names of the suffixes of the output files: the suffix of an output
\* file is any text, of a format of --format or not
SuffixNames == {"svg", "png", "pdf", "jpg"}

\* Path(args.output).suffix.lstrip("."), as a format name
SuffixFormat(output) ==
  LET suffix == PathSuffix(output)
      ext == Slice(suffix, SkipRun(suffix, 1, {"."}), Len(suffix) + 1)
  IN IF \E n \in SuffixNames : FormatText(n) = ext
     THEN CHOOSE n \in SuffixNames : FormatText(n) = ext
     ELSE ""

\* an output format that prefers the suffix of the output file to --format
output_format_suffix_first(output, format) ==
  IF output # <<>> /\ SuffixFormat(output) # "" THEN SuffixFormat(output)
  ELSE IF format # "" THEN format
  ELSE "svg"

\* args.format or Path(args.output).suffix.lstrip(".") or "svg" with an
\* output file, args.format or "svg" without
output_format(output, format) ==
  IF output # <<>>
  THEN IF format # "" THEN format
       ELSE IF SuffixFormat(output) # "" THEN SuffixFormat(output)
       ELSE "svg"
  ELSE IF format # "" THEN format ELSE "svg"

\* a check that finds every path
path_exists_always(file) == TRUE

\* input_path.exists()
path_exists(file) == file.status # "missing"

\* main, lines 336-348: the data is loaded from stdin or from the input
\* file, unless the file does not exist
main_load(file, stdin_content) ==
  IF file.path = <<>> \/ file.path = <<"-">>
  THEN Outcome(load_stdin(stdin_content).ret,
               <<CallOn("load_stdin", <<>>)>> \o load_stdin(stdin_content).calls)
  ELSE IF ~path_exists(file)
  THEN Outcome(Raise("SystemExit"),
               <<CallOn("Path.exists", file.path),
                 Call("print", <<"E","r","r","o","r",":"," ","F","i","l","e"," ",
                                 "n","o","t"," ","f","o","u","n","d",":"," ">> \o file.path,
                      <<>>, <<>>, <<"sys.stderr">>),
                 Call("sys.exit", <<>>, <<>>, <<1>>, <<>>)>>)
  ELSE Outcome(load_data_file(file).ret,
               <<CallOn("Path.exists", file.path), CallOn("load_data_file", file.path)>>
                 \o load_data_file(file).calls)

\* main, line 357: the figure is created from the loaded data
main_plot(loaded, created, figsize, style, rc) ==
  IF loaded.ret.kind = "raise" THEN [ret |-> loaded.ret, calls |-> loaded.calls, rc |-> rc]
  ELSE [ret |-> created.ret,
        calls |-> loaded.calls
                    \o <<Call("create_scatter_plot", <<>>, <<loaded.ret.data>>, figsize,
                              <<style>>)>>
                    \o created.calls,
        rc |-> created.rc]

\* main, lines 350-363: the output format is chosen, the figure saved in it
\* and closed
main_save(plotted, saved, output, chosen, dpi) ==
  IF plotted.ret.kind = "raise" THEN plotted
  ELSE [ret |-> IF saved.ret.kind = "raise" THEN saved.ret ELSE ReturnNone,
        calls |-> plotted.calls
                    \o <<Call("save_figure", output, <<>>, <<dpi>>, <<chosen>>)>>
                    \o saved.calls
                    \o (IF saved.ret.kind = "raise" THEN <<>>
                        ELSE <<CallOn("plt.close", <<>>)>>),
        rc |-> plotted.rc]

(***************************************************************************)
(* Inputs: texts of CSV tables and of JSON documents, and files.           *)
(***************************************************************************)
RECURSIVE Join(_, _)
\* sep.join(parts)
Join(parts, sep) ==
  IF parts = <<>> THEN <<>>
  ELSE IF Len(parts) = 1 THEN parts[1]
  ELSE parts[1] \o sep \o Join(Tail(parts), sep)

\* column names: one that matches each role, two of them in another letter
\* case, and one that matches no role
ColumnNames == { <<"N","a","m","e">>, S_x, <<"T","i","m","e">>, S_y, <<"c">> }

Headers == UNION { [1..n -> ColumnNames] : n \in 1..MaxCols }

\* the cell of data row r and column c: distinct for distinct (r, c)
CsvCell(r, c) == IF c = 1 THEN <<"m", DigitChar(r)>> ELSE <<DigitChar(r), DigitChar(c)>>

CsvText(header, nrows) ==
  Join(<<Join(header, <<",">>)>>
         \o [r \in 1..nrows |-> Join([c \in 1..Len(header) |-> CsvCell(r, c)], <<",">>)],
       <<"\n">>)

\* the headers of the tables generated with every number of rows
RowHeaders == { <<S_label, S_x, S_y>>, <<S_y, S_x, <<"N","a","m","e">>>> }

\* tables of one row under every header, and tables of every number of rows
\* under the row headers
CsvTexts ==
  { CsvText(h, 1) : h \in Headers } \cup { CsvText(h, n) : h \in RowHeaders, n \in 0..MaxRows }

\* texts outside the generated families: the column names of the tests, a
\* trailing newline, a blank line, short and long rows, an unnamed column,
\* upper case, truncated JSON, a JSON array with a trailing comma
OtherTexts ==
  { <<>>,
    <<"n","a","m","e",",","s","p","e","e","d","_","m","s",",",
      "q","u","a","l","i","t","y","_","t","i","e","r","\n",
      "f","a","s","t",",","5","5","6",",","5","\n">>,
    <<"c","o","l","1",",","c","o","l","2",",","c","o","l","3","\n","\n",
      "m",",","1","0","0",",","5">>,
    <<"a",",","b",",","c","\n","1",",","2">>,
    <<"a",",","b","\n","1",",","2",",","3">>,
    <<",","x",",","y","\n","m",",","1",",","2">>,
    <<"L","A","B","E","L",",","X",",","Y","\n","m",",","1",",","2">>,
    <<"{","\"","p","o","i","n","t","s","\"",":"," ","[">>,
    <<"[","1",",","]">>,
    <<"n","a","m","e",",","x","y","\n","m",",","1">>,
    <<"n","a","m","e",",","x","y",",","c","\n","m",",","1",",","2">> }

\* json.dumps of a value (separators ", " and ": ")
RECURSIVE Dumps(_)
Dumps(v) ==
  IF v.kind = "str" THEN <<"\"">> \o v.text \o <<"\"">>
  ELSE IF v.kind = "num" THEN v.text
  ELSE IF v.kind = "arr"
  THEN <<"[">> \o Join([i \in 1..Len(v.val) |-> Dumps(v.val[i])], <<",", " ">>) \o <<"]">>
  ELSE IF v.kind = "obj"
  THEN <<"{">> \o Join([i \in 1..Len(v.val) |->
                          <<"\"">> \o ItemKey(v.val[i]) \o <<"\"", ":", " ">>
                            \o Dumps(ItemValue(v.val[i]))],
                       <<",", " ">>) \o <<"}">>
  ELSE <<"n","u","l","l">>

Point(x, y, label) ==
  JObj(<< JItem(S_x, JNum(x)), JItem(S_y, JNum(y)), JItem(S_label, JStr(label)) >>)

PointPool == { Point(<<"1","0","0">>, <<"5">>, <<"m","a">>),
               Point(<<"2","0","0">>, <<"4">>, <<"m","b">>) }

PointLists == UNION { [1..n -> PointPool] : n \in 0..MaxPoints }

MetaSets ==
  { <<>>,
    << JItem(S_title, JStr(<<"T">>)) >>,
    << JItem(S_xlabel, JStr(<<"s">>)), JItem(S_ylabel, JStr(<<"q">>)) >>,
    << JItem(S_title, JStr(<<"T">>)), JItem(S_xlabel, JStr(<<"s">>)),
       JItem(S_ylabel, JStr(<<"q">>)) >> }

\* the documents of the input format: optional title and axis labels, points
Documents == { JObj(m \o << JItem(S_points, JArr(ps)) >>) : m \in MetaSets, ps \in PointLists }

Pads == UNION { [1..n -> {" ", "\f"}] : n \in 0..MaxPad }

\* the JSON texts that are padded: values that are not documents (a number,
\* which is also a one-cell CSV table, an array, null) and the documents of
\* at most one point without title and axis labels
JsonCore ==
  { <<"1">>, <<"[","1","]">>, <<"n","u","l","l">> }
    \cup { Dumps(JObj(<< JItem(S_points, JArr(ps)) >>)) : ps \in { q \in PointLists : Len(q) <= 1 } }

\* the documents as json.dumps writes them, and the padded texts
JsonTexts ==
  { Dumps(d) : d \in Documents } \cup { a \o t \o b : a \in Pads, b \in Pads, t \in JsonCore }

Contents == CsvTexts \cup JsonTexts \cup OtherTexts

Paths ==
  { <<"d",".","c","s","v">>,
    <<"d",".","C","S","V">>,
    <<"d",".","j","s","o","n">>,
    <<"d",".","J","s","o","n">>,
    <<"d",".","j","s","o","n",".","c","s","v">>,
    <<"d",".","t","x","t">>,
    <<"d">>,
    <<".","c","s","v">>,
    <<"a",".","j","s","o","n","/","d">> }

File(path, status, content) == [path |-> path, status |-> status, content |-> content]

\* a file that cannot be opened or read has no content the program can see
Files ==
  { File(p, "ok", c) : p \in Paths, c \in Contents }
    \cup { File(p, st, <<>>) : p \in Paths, st \in {"open_fails", "read_fails"} }

\* a document of two tiers, the first of them with two points
TierData ==
  JObj(<< JItem(S_points,
            JArr(<< Point(<<"1","0","0">>, <<"4">>, <<"m","a">>),
                    Point(<<"2","0","0">>, <<"4">>, <<"m","b">>),
                    Point(<<"3","0","0">>, <<"5">>, <<"m","c">>) >>)) >>)

\* inputs of create_scatter_plot: the documents, a dict without points, and a
\* value that is not a dict
PlotData ==
  Documents \cup { TierData, JObj(<< JItem(S_title, JStr(<<"T">>)) >>), JArr(<<JNum(<<"1">>)>>) }
FigSizes == { <<12, 8>>, <<10, 6>> }
Styles == { "default", "ggplot" }
Formats == { "svg", "png", "pdf" }
Dpis == { 300, 150 }
OutputPaths == { NoPath, <<"o",".","s","v","g">>, <<"o",".","p","n","g">> }

\* command lines of main: the data on stdin (no input argument, or "-") or
\* in a file, which may not exist; an output file or none; --format or none
MainTexts ==
  { Dumps(JObj(<< JItem(S_points, JArr(<<>>)) >>)),
    CsvText(<<S_label, S_x, S_y>>, 1),
    <<"[","1","]">> }
MainInputs ==
  { [file |-> File(p, st, <<>>), text |-> t] :
      p \in { <<>>, <<"-">> }, st \in {"missing"}, t \in MainTexts }
    \cup { [file |-> File(<<"d",".","j","s","o","n">>, "ok", t), text |-> <<>>] :
             t \in MainTexts \cup { <<"[","1",",","]">> } }
    \cup { [file |-> File(p, "missing", <<>>), text |-> <<>>] :
             p \in { <<"d",".","j","s","o","n">>, <<"d">> } }
MainOutputs ==
  OutputPaths \cup { <<"o">>, <<"a",".","p","n","g","/","o">>, <<"o",".","j","p","g">> }
MainFormats == Formats \cup { "" }

(***************************************************************************)
(* The state machine.  op names the last call, arg holds its arguments     *)
(* (the fields the call does not take keep the values of NoArg), ret its   *)
(* result and calls the calls it made.  The loaders are called once, from  *)
(* the initial state: their result depends on their arguments only.        *)
(***************************************************************************)
NoArg ==
  [file |-> File(<<>>, "none", <<>>), text |-> <<>>, data |-> NoValue,
   figsize |-> <<0, 0>>, style |-> "", rc |-> "", fig |-> NoFig,
   output_path |-> <<>>, format |-> "", dpi |-> 0]

Init ==
  /\ op = "init"
  /\ arg = NoArg
  /\ ret = NoResult
  /\ calls = <<>>
  /\ rc_style = "default"

Apply(name, a, outcome) ==
  /\ op' = name
  /\ arg' = a
  /\ ret' = outcome.ret
  /\ calls' = outcome.calls

DetectFileFormat ==
  /\ op = "init"
  /\ \E file \in Files :
       Apply("detect_file_format", [NoArg EXCEPT !.file = file], detect_file_format(file))
  /\ UNCHANGED rc_style

LoadStdin ==
  /\ op = "init"
  /\ \E stdin_content \in Contents :
       Apply("load_stdin", [NoArg EXCEPT !.text = stdin_content], load_stdin(stdin_content))
  /\ UNCHANGED rc_style

LoadJsonFile ==
  /\ op = "init"
  /\ \E file \in Files : Apply("load_json_file", [NoArg EXCEPT !.file = file], load_json_file(file))
  /\ UNCHANGED rc_style

LoadCsvFile ==
  /\ op = "init"
  /\ \E file \in Files : Apply("load_csv_file", [NoArg EXCEPT !.file = file], load_csv_file(file))
  /\ UNCHANGED rc_style

LoadDataFile ==
  /\ op = "init"
  /\ \E file \in Files : Apply("load_data_file", [NoArg EXCEPT !.file = file], load_data_file(file))
  /\ UNCHANGED rc_style

\* any number of plots are created in one process; the style in effect
\* carries over from one call to the next
CreateScatterPlot ==
  /\ op \in {"init", "create_scatter_plot"}
  /\ \E data \in PlotData, figsize \in FigSizes, style \in Styles :
       LET r == create_scatter_plot(data, figsize, style, rc_style) IN
       /\ Apply("create_scatter_plot",
                [NoArg EXCEPT !.data = data, !.figsize = figsize, !.style = style,
                              !.rc = rc_style],
                r)
       /\ rc_style' = r.rc

\* a figure is saved: the one just created, or any figure of the caller
SaveFigure ==
  /\ op \in {"init", "create_scatter_plot"}
  /\ \E output_path \in OutputPaths, format \in Formats, dpi \in Dpis :
       LET fig == IF op = "create_scatter_plot" /\ ret.kind = "return" THEN ret.fig
                  ELSE [figsize |-> <<12, 8>>, style |-> rc_style]
       IN Apply("save_figure",
                [NoArg EXCEPT !.fig = fig, !.output_path = output_path, !.format = format,
                              !.dpi = dpi],
                save_figure(fig, output_path, format, dpi))
  /\ UNCHANGED rc_style

\* one run of the program, in a process of its own.  Each step of main is
\* taken once, on the result of the step before: an exception ends the run
Main ==
  /\ op = "init"
  /\ \E input \in MainInputs :
     \E loaded \in { main_load(input.file, input.text) } :
     \E figsize \in FigSizes, style \in Styles :
     \E created \in { IF loaded.ret.kind = "raise"
                      THEN [ret |-> loaded.ret, calls |-> <<>>, rc |-> rc_style]
                      ELSE create_scatter_plot(loaded.ret.data, figsize, style, rc_style) } :
     \E plotted \in { main_plot(loaded, created, figsize, style, rc_style) } :
     \E output \in MainOutputs, format \in MainFormats, dpi \in Dpis :
     \E chosen \in { output_format(output, format) } :
     \E saved \in { save_figure(plotted.ret.fig, output, chosen, dpi) } :
       /\ Apply("main",
                [NoArg EXCEPT !.file = input.file, !.text = input.text,
                              !.output_path = output, !.format = format,
                              !.figsize = figsize, !.style = style, !.dpi = dpi,
                              !.rc = rc_style],
                main_save(plotted, saved, output, chosen, dpi))
       /\ rc_style' = plotted.rc

Next ==
  \/ Main
  \/ DetectFileFormat
  \/ LoadStdin
  \/ LoadJsonFile
  \/ LoadCsvFile
  \/ LoadDataFile
  \/ CreateScatterPlot
  \/ SaveFigure

Spec == Init /\ [][Next]_vars

(***************************************************************************)
(* Vocabulary of the properties.                                           *)
(***************************************************************************)
\* dict operations on a decoded value
HasKey(d, k) == d.kind = "obj" /\ \E i \in 1..Len(d.val) : ItemKey(d.val[i]) = k
Get(d, k) == ItemValue(d.val[CHOOSE i \in 1..Len(d.val) : ItemKey(d.val[i]) = k])

\* the path ends in an extension, given as the sets of characters allowed at
\* each position, and the extension is not the whole file name
EndsWith(p, ext) ==
  /\ Len(p) > Len(ext)
  /\ p[Len(p) - Len(ext)] # "/"
  /\ \A k \in 1..Len(ext) : p[Len(p) - Len(ext) + k] \in ext[k]

CsvExt == << {"."}, {"c", "C"}, {"s", "S"}, {"v", "V"} >>
JsonExt == << {"."}, {"j", "J"}, {"s", "S"}, {"o", "O"}, {"n", "N"} >>

SpacePads == UNION { [1..n -> {" "}] : n \in 0..MaxPad }

\* the texts that are JSON as they stand: a JSON text within spaces
ValidJsonTexts ==
  { Dumps(d) : d \in Documents }
    \cup { a \o t \o b : a \in SpacePads, b \in SpacePads, t \in JsonCore }

\* the text is document d within spaces
IsTextOf(text, d) == \E a \in SpacePads, b \in SpacePads : text = a \o Dumps(d) \o b

\* the number of data rows of a CSV text: its non-blank lines but the header
DataRows(text) == Len(Lines(text)) - 1

\* the state follows a CSV load that returned: load_csv_file, or load_stdin
\* on a content that is not JSON
CsvLoaded ==
  /\ op \in {"load_csv_file", "load_stdin"}
  /\ ret.kind = "return"
  /\ op = "load_stdin" => arg.text \notin ValidJsonTexts

\* the text the returned data of a CSV load was read from
CsvSource == IF op = "load_stdin" THEN arg.text ELSE arg.file.content

\* the first column whose lower-cased name contains one of the substrings,
\* and column k when there is none
RoleColumn(columns, subs, k) ==
  LET hit(i) == \E sub \in subs : Contains(lower(columns[i]), sub) IN
  IF \E i \in 1..Len(columns) : hit(i)
  THEN columns[CHOOSE i \in 1..Len(columns) : hit(i) /\ \A j \in 1..(i - 1) : ~hit(j)]
  ELSE columns[k]

LabelSubs == {S_label, S_name}
XSubs == {S_x, S_speed, S_time}
YSubs == {S_y, S_quality, S_tier}

(***************************************************************************)
(* Properties.                                                             *)
(***************************************************************************)
\* C1: detect_file_format returns 'csv' for a path whose suffix is .csv and
\* 'json' for one whose suffix is .json, in any letter case, whatever the
\* file contains and whether or not it can be opened, and it does not open
\* the file.
C1_ExtensionDecidesFormat ==
  op = "detect_file_format" =>
    /\ EndsWith(arg.file.path, CsvExt) => ret = ReturnFormat("csv") /\ calls = <<>>
    /\ EndsWith(arg.file.path, JsonExt) => ret = ReturnFormat("json") /\ calls = <<>>

\* an upper-case .CSV path of a file that cannot be opened was detected as csv
C1_Witness ==
  /\ op = "detect_file_format"
  /\ arg.file.path = <<"d", ".", "C", "S", "V">>
  /\ arg.file.status = "open_fails"
  /\ ret = ReturnFormat("csv")

\* C2: for a path with another suffix, detect_file_format returns 'json'
\* exactly when the file can be read and its stripped content is JSON, and
\* 'csv' otherwise, also when opening or reading fails; it never raises.
C2_ContentDecidesFormat ==
  (op = "detect_file_format" /\ ~EndsWith(arg.file.path, CsvExt)
     /\ ~EndsWith(arg.file.path, JsonExt)) =>
    ret = ReturnFormat(IF arg.file.status = "ok" /\ arg.file.content \in JsonTexts
                       THEN "json" ELSE "csv")

\* a document behind a form feed, in a file without extension, was detected
\* as json
C2_Witness ==
  /\ op = "detect_file_format"
  /\ arg.file.path = <<"d">>
  /\ arg.file.status = "ok"
  /\ arg.file.content # <<>> /\ arg.file.content[1] = "\f"
  /\ ret = ReturnFormat("json")

\* C3: load_stdin reads stdin once; a content that is JSON is returned as the
\* decoded value and is not parsed as CSV; any other content is parsed as
\* CSV, that same content, and the data returned is derived from it.
C3_StdinJsonFirst ==
  op = "load_stdin" =>
    /\ CountCalls(calls, "sys.stdin.read") = 1
    /\ arg.text \in ValidJsonTexts =>
         /\ ret.kind = "return"
         /\ CountCalls(calls, "read_csv") = 0
         /\ \A d \in Documents : IsTextOf(arg.text, d) => ret.data = d
    /\ arg.text \notin ValidJsonTexts =>
         /\ calls = <<CallOn("sys.stdin.read", <<>>), CallOn("read_csv", arg.text)>>
         /\ ret.kind = "return" =>
              /\ HasKey(ret.data, S_points)
              /\ Len(Get(ret.data, S_points).val) = DataRows(arg.text)
              /\ Get(ret.data, S_title) = JStr(S_ScatterPlot)

\* a content that is not JSON was loaded from stdin as a CSV table with rows
C3_Witness ==
  /\ op = "load_stdin"
  /\ arg.text \notin ValidJsonTexts
  /\ ret.kind = "return"
  /\ Len(Get(ret.data, S_points).val) = MaxRows

\* C4: in a CSV load that returns, the column of each role is the first
\* column whose lower-cased name contains one of the role's substrings, and
\* without such a column the first (label), second (x) or third (y) column.
C4_ColumnHeuristics ==
  CsvLoaded =>
    LET df == read_csv(CsvSource).df
        points == Get(ret.data, S_points).val
    IN /\ Get(ret.data, S_xlabel) = JStr(RoleColumn(df.columns, XSubs, 2))
       /\ Get(ret.data, S_ylabel) = JStr(RoleColumn(df.columns, YSubs, 3))
       /\ \A r \in 1..Len(points) :
            /\ Get(points[r], S_label) = RowValue(df, r, RoleColumn(df.columns, LabelSubs, 1))
            /\ Get(points[r], S_x) = RowValue(df, r, RoleColumn(df.columns, XSubs, 2))
            /\ Get(points[r], S_y) = RowValue(df, r, RoleColumn(df.columns, YSubs, 3))

\* a table whose x is matched by name in the third column, after a column
\* that matches no role, and whose label is the positional first column
C4_Witness ==
  /\ CsvLoaded
  /\ DataRows(CsvSource) > 0
  /\ read_csv(CsvSource).df.columns = << <<"c">>, S_y, <<"T","i","m","e">> >>
  /\ Get(ret.data, S_xlabel) = JStr(<<"T","i","m","e">>)
  /\ Get(Get(ret.data, S_points).val[1], S_label) = JStr(<<"m","1">>)

\* C5: a CSV load that returns gives one point per data row, in row order,
\* with the keys label, x, y holding the row's values of the chosen columns;
\* a header without data rows gives no points.
C5_OnePointPerRow ==
  CsvLoaded =>
    LET df == read_csv(CsvSource).df
        cols == IF op = "load_stdin" THEN stdin_columns(df) ELSE csv_columns(df)
        points == Get(ret.data, S_points).val
    IN /\ Len(points) = DataRows(CsvSource)
       /\ \A r \in 1..Len(points) :
            points[r] =
              JObj(<< JItem(S_label, df.rows[r][ColumnIndex(df.columns, cols.label_col)]),
                      JItem(S_x, df.rows[r][ColumnIndex(df.columns, cols.x_col)]),
                      JItem(S_y, df.rows[r][ColumnIndex(df.columns, cols.y_col)]) >>)

\* a generated table label,x,y with the largest number of rows was loaded,
\* and its last point holds the cells of the last row
C5_Witness ==
  /\ op = "load_csv_file"
  /\ ret.kind = "return"
  /\ arg.file.content = CsvText(<<S_label, S_x, S_y>>, MaxRows)
  /\ Get(ret.data, S_points).val[MaxRows] =
       JObj(<< JItem(S_label, JStr(CsvCell(MaxRows, 1))),
               JItem(S_x, JNum(CsvCell(MaxRows, 2))),
               JItem(S_y, JNum(CsvCell(MaxRows, 3))) >>)

\* C6: load_data_file calls one loader, once, with its path: load_csv_file
\* when the detected format is 'csv' and load_json_file otherwise, and its
\* outcome is that loader's outcome.
C6_OneLoader ==
  op = "load_data_file" =>
    LET csv == detect_file_format(arg.file).ret.fmt = "csv" IN
    /\ CountCalls(calls, "load_csv_file") = (IF csv THEN 1 ELSE 0)
    /\ CountCalls(calls, "load_json_file") = (IF csv THEN 0 ELSE 1)
    /\ \A i \in 1..Len(calls) :
         calls[i].fn \in {"load_csv_file", "load_json_file"} => calls[i].text = arg.file.path
    /\ ret = (IF csv THEN load_csv_file(arg.file).ret ELSE load_json_file(arg.file).ret)

\* a file without extension holding a document was loaded by load_json_file
C6_Witness ==
  /\ op = "load_data_file"
  /\ arg.file.path = <<"d">>
  /\ CountCalls(calls, "load_json_file") = 1
  /\ ret.kind = "return"
  /\ HasKey(ret.data, S_points)

\* C7: load_json_file raises JSONDecodeError on a readable file whose
\* content is not JSON, and load_data_file on such a file with a .json
\* suffix raises it too, without calling the CSV loader.
C7_InvalidJsonRaises ==
  /\ (op = "load_json_file" /\ arg.file.status = "ok"
        /\ arg.file.content \notin ValidJsonTexts) =>
       ret = Raise("JSONDecodeError")
  /\ (op = "load_data_file" /\ EndsWith(arg.file.path, JsonExt) /\ arg.file.status = "ok"
        /\ arg.file.content \notin ValidJsonTexts) =>
       /\ ret = Raise("JSONDecodeError")
       /\ CountCalls(calls, "load_csv_file") = 0

\* a .json file holding a well-formed CSV table made load_data_file raise
C7_Witness ==
  /\ op = "load_data_file"
  /\ arg.file.path = <<"d", ".", "j", "s", "o", "n">>
  /\ arg.file.content = CsvText(<<S_label, S_x, S_y>>, 1)
  /\ ret = Raise("JSONDecodeError")

LoadedAsCsv ==
  /\ op \in {"load_stdin", "load_data_file"}
  /\ ret.kind = "return"
  /\ op = "load_stdin" => arg.text \notin ValidJsonTexts
  /\ op = "load_data_file" => CountCalls(calls, "load_csv_file") = 1

\* the state follows a load_stdin or load_data_file that returned data it
\* read as JSON
LoadedAsJson ==
  /\ op \in {"load_stdin", "load_data_file"}
  /\ ret.kind = "return"
  /\ op = "load_stdin" => arg.text \in ValidJsonTexts
  /\ op = "load_data_file" => CountCalls(calls, "load_json_file") = 1

RECURSIVE Deliveries(_)
Deliveries(cs) ==
  IF cs = <<>> THEN <<>>
  ELSE (IF Head(cs).fn = "fig.savefig" /\ Head(cs).opts[1] = "file"
        THEN <<[to |-> "file", path |-> Head(cs).text]>>
        ELSE IF Head(cs).fn = "sys.stdout.buffer.write"
        THEN <<[to |-> "stdout.buffer", path |-> <<>>]>>
        ELSE IF Head(cs).fn = "sys.stdout.write" THEN <<[to |-> "stdout", path |-> <<>>]>>
        ELSE <<>>) \o Deliveries(Tail(cs))

\* C9: save_figure renders once, with the format and dpi it was given, and
\* delivers the figure to one destination: the path when there is one, else
\* the binary buffer of stdout for 'png' and the text stream of stdout for
\* any other format.
C9_OneRenderOneDestination ==
  op = "save_figure" =>
    /\ CountCalls(calls, "fig.savefig") = 1
    /\ \A i \in 1..Len(calls) :
         calls[i].fn = "fig.savefig" =>
           calls[i].opts[2] = arg.format /\ calls[i].nums = <<arg.dpi>>
    /\ Deliveries(calls) =
         (IF arg.output_path # NoPath THEN <<[to |-> "file", path |-> arg.output_path]>>
          ELSE IF arg.format = "png" THEN <<[to |-> "stdout.buffer", path |-> <<>>]>>
          ELSE <<[to |-> "stdout", path |-> <<>>]>>)

\* C10: a create_scatter_plot that returns has set the x label, the y label
\* and the title once each, to the data's xlabel, ylabel and title when the
\* key is present and to 'X', 'Y' and 'Scatter Plot' when it is absent.
C10_LabelsSetOnce ==
  (op = "create_scatter_plot" /\ ret.kind = "return") =>
    LET Expected(k, default) == IF HasKey(arg.data, k) THEN Get(arg.data, k) ELSE JStr(default)
        SetTo(fn, v) ==
          /\ CountCalls(calls, fn) = 1
          /\ \A i \in 1..Len(calls) : calls[i].fn = fn => calls[i].vals = <<v>>
    IN /\ SetTo("ax.set_xlabel", Expected(S_xlabel, <<"X">>))
       /\ SetTo("ax.set_ylabel", Expected(S_ylabel, <<"Y">>))
       /\ SetTo("ax.set_title",
                Expected(S_title, <<"S","c","a","t","t","e","r"," ","P","l","o","t">>))

\* a plot of data with a title and no axis labels got the title of the data
\* and the default axis labels
C10_Witness ==
  /\ op = "create_scatter_plot"
  /\ ret.kind = "return"
  /\ HasKey(arg.data, S_title) /\ ~HasKey(arg.data, S_xlabel)
  /\ \E i \in 1..Len(calls) : calls[i].fn = "ax.set_xlabel" /\ calls[i].vals = <<JStr(<<"X">>)>>
  /\ \E i \in 1..Len(calls) : calls[i].fn = "ax.set_title" /\ calls[i].vals = <<JStr(<<"T">>)>>

\* the calls of fn in a call log, in order
CallsOf(cs, fn) == SelectSeq(cs, LAMBDA c : c.fn = fn)

\* the position of the only call of fn in a call log
IndexOf(cs, fn) == CHOOSE i \in 1..Len(cs) : cs[i].fn = fn

\* C11: create_scatter_plot applies a style exactly when its style argument
\* is not 'default', that style and before the figure is created, and it
\* creates one figure, with the figsize it was given.
C11_StyleThenFigure ==
  op = "create_scatter_plot" =>
    /\ CallsOf(calls, "plt.style.use") =
         (IF arg.style # "default"
          THEN <<Call("plt.style.use", <<>>, <<>>, <<>>, <<arg.style>>)>> ELSE <<>>)
    /\ CallsOf(calls, "plt.subplots") = <<Call("plt.subplots", <<>>, <<>>, arg.figsize, <<>>)>>
    /\ arg.style # "default" => IndexOf(calls, "plt.style.use") < IndexOf(calls, "plt.subplots")
    /\ rc_style = (IF arg.style # "default" THEN arg.style ELSE arg.rc)

\* a plot in style ggplot of size 10 by 6: the style was applied, then the
\* figure created with that size
C11_Witness ==
  /\ op = "create_scatter_plot"
  /\ arg.style = "ggplot"
  /\ calls[1].fn = "plt.style.use" /\ calls[1].opts = <<"ggplot">>
  /\ calls[2].fn = "plt.subplots" /\ calls[2].nums = <<10, 6>>

\* C12: a create_scatter_plot that returns has created one text per point,
\* in point order, at the point's x and y with centre alignment, has drawn
\* all points in one scatter call, and has called adjust_text once, after
\* every text was created, with exactly those texts.
C12_OneLabelPerPoint ==
  (op = "create_scatter_plot" /\ ret.kind = "return") =>
    LET points == Get(arg.data, S_points).val
        texts == CallsOf(calls, "ax.text")
    IN /\ Len(texts) = Len(points)
       /\ \A i \in 1..Len(points) :
            /\ texts[i].vals = <<Get(points[i], S_x), Get(points[i], S_y), Get(points[i], S_label)>>
            /\ texts[i].opts = <<"center", "center">>
       /\ Len(CallsOf(calls, "ax.scatter")) = 1
       /\ CallsOf(calls, "ax.scatter")[1].vals =
            << JArr([i \in 1..Len(points) |-> Get(points[i], S_x)]),
               JArr([i \in 1..Len(points) |-> Get(points[i], S_y)]) >>
       /\ Len(CallsOf(calls, "adjust_text")) = 1
       /\ CallsOf(calls, "adjust_text")[1].vals = [i \in 1..Len(points) |-> JArr(texts[i].vals)]
       /\ \A i \in 1..Len(calls) :
            calls[i].fn = "ax.text" => i < IndexOf(calls, "adjust_text")

\* a plot of two different points, the second first: two texts in that
\* order, then one adjust_text on both
C12_Witness ==
  /\ op = "create_scatter_plot"
  /\ ret.kind = "return"
  /\ Len(Get(arg.data, S_points).val) = 2
  /\ Get(Get(arg.data, S_points).val[1], S_label) = JStr(<<"m","b">>)
  /\ Get(Get(arg.data, S_points).val[2], S_label) = JStr(<<"m","a">>)
  /\ CallsOf(calls, "ax.text")[1].vals = <<JNum(<<"2","0","0">>), JNum(<<"4">>), JStr(<<"m","b">>)>>
  /\ Len(CallsOf(calls, "adjust_text")[1].vals) = 2
\* C14: whatever the order in which invocations of create_scatter_plot run,
\* each returns the figure it returns when it runs alone, from the default
\* style state.
C14_FigureAsWhenAlone ==
  (op = "create_scatter_plot" /\ ret.kind = "return") =>
    ret.fig = create_scatter_plot(arg.data, arg.figsize, arg.style, "default").ret.fig

\* C16: the format main passes to save_figure, and save_figure to savefig, is
\* the --format option when given; otherwise the suffix of the output file
\* without its dot, when an output file is given and has one; otherwise svg.
C16_FormatPrecedence ==
  (op = "main" /\ CallsOf(calls, "save_figure") # <<>>) =>
    LET chosen == CallsOf(calls, "save_figure")[1].opts[1] IN
    /\ Len(CallsOf(calls, "save_figure")) = 1
    /\ CallsOf(calls, "save_figure")[1].text = arg.output_path
    /\ arg.format # "" => chosen = arg.format
    /\ (arg.format = "" /\ arg.output_path # <<>> /\ PathSuffix(arg.output_path) # <<>>) =>
         PathSuffix(arg.output_path) = <<".">> \o FormatText(chosen)
    /\ (arg.format = "" /\ (arg.output_path = <<>> \/ PathSuffix(arg.output_path) = <<>>)) =>
         chosen = "svg"
    /\ \A i \in 1..Len(calls) : calls[i].fn = "fig.savefig" => calls[i].opts[2] = chosen

\* main --format pdf with output o.png has saved as pdf
C16_Witness ==
  /\ op = "main"
  /\ arg.format = "pdf"
  /\ arg.output_path = <<"o",".","p","n","g">>
  /\ CallsOf(calls, "save_figure") # <<>>
  /\ CallsOf(calls, "save_figure")[1].opts = <<"pdf">>
  /\ ret.kind = "return"

\* C18: main with an input path other than '-' that does not exist prints
\* 'Error: File not found: <path>' to stderr and exits with status 1, and
\* does nothing else; main without input or with '-' calls load_stdin first
\* and checks no file.
C18_MissingInputExits ==
  op = "main" =>
    /\ (arg.file.path \notin { <<>>, <<"-">> } /\ arg.file.status = "missing") =>
         /\ ret = Raise("SystemExit")
         /\ calls = << CallOn("Path.exists", arg.file.path),
                       Call("print", <<"E","r","r","o","r",":"," ","F","i","l","e"," ",
                                       "n","o","t"," ","f","o","u","n","d",":"," ">>
                                       \o arg.file.path,
                            <<>>, <<>>, <<"sys.stderr">>),
                       Call("sys.exit", <<>>, <<>>, <<1>>, <<>>) >>
    /\ arg.file.path \in { <<>>, <<"-">> } =>
         /\ calls[1] = CallOn("load_stdin", <<>>)
         /\ calls[2] = CallOn("sys.stdin.read", <<>>)
         /\ CallsOf(calls, "Path.exists") = <<>>
         /\ CallsOf(calls, "load_data_file") = <<>>
         /\ CallsOf(calls, "sys.exit") = <<>>

\* main on the path d.json, which does not exist, has exited
C18_Witness ==
  /\ op = "main"
  /\ arg.file = File(<<"d",".","j","s","o","n">>, "missing", <<>>)
  /\ ret = Raise("SystemExit")
  /\ Len(calls) = 3
  /\ calls[3].nums = <<1>>

\* C17: load_stdin on a text that is not valid JSON ends as load_csv_file
\* ends on a file holding that text, whatever the file's name: with the same
\* points, xlabel, ylabel and title, or with the same exception.
C17_StdinCsvAsFile ==
  (op = "load_stdin" /\ ~json_loads(arg.text).ok) =>
    \A p \in Paths : ret = load_csv_file(File(p, "ok", arg.text)).ret

\* load_stdin on a table with header Time,c,y has returned the points dict
\* with xlabel Time that load_csv_file returns
C17_Witness ==
  /\ op = "load_stdin"
  /\ arg.text = CsvText(<< <<"T","i","m","e">>, <<"c">>, S_y >>, 1)
  /\ ~json_loads(arg.text).ok
  /\ ret.kind = "return"
  /\ Get(ret.data, S_xlabel) = JStr(<<"T","i","m","e">>)
  /\ Len(Get(ret.data, S_points).val) = 1
  /\ ret = load_csv_file(File(<<"d",".","c","s","v">>, "ok", arg.text)).ret

\* the lower-cased column name contains one of the substrings of a role
RoleMatch(c, subs) == \E sub \in subs : Contains(lower(c), sub)

\* no column name matches two roles, and the positional column of a role
\* that no name matches has a name that matches no role
NoSharedColumn(columns) ==
  LET roles == <<LabelSubs, XSubs, YSubs>> IN
  /\ \A i \in 1..Len(columns) : \A k, l \in 1..3 :
       (RoleMatch(columns[i], roles[k]) /\ RoleMatch(columns[i], roles[l])) => k = l
  /\ \A k \in 1..3 :
       (\A i \in 1..Len(columns) : ~RoleMatch(columns[i], roles[k])) =>
         /\ k <= Len(columns)
         /\ \A l \in 1..3 : ~RoleMatch(columns[k], roles[l])

\* the columns chosen in the CSV load the state follows
ChosenColumns ==
  IF op = "load_stdin" THEN stdin_columns(read_csv(CsvSource).df)
  ELSE csv_columns(read_csv(CsvSource).df)

\* C19, as stated: in every CSV load that returns, the label, x and y columns
\* chosen are three pairwise distinct columns of the input.
C19_AlwaysDistinct ==
  CsvLoaded =>
    /\ {ChosenColumns.label_col, ChosenColumns.x_col, ChosenColumns.y_col}
         \subseteq Columns(read_csv(CsvSource).df)
    /\ Cardinality({ChosenColumns.label_col, ChosenColumns.x_col, ChosenColumns.y_col}) = 3

\* C19, amended: in every CSV load that returns, the label, x and y columns
\* chosen are columns of the input, and they are pairwise distinct when no
\* column name matches two roles and the positional column of every role
\* without a match has a name that matches no role.
C19_DistinctUnlessShared ==
  CsvLoaded =>
    /\ {ChosenColumns.label_col, ChosenColumns.x_col, ChosenColumns.y_col}
         \subseteq Columns(read_csv(CsvSource).df)
    /\ NoSharedColumn(read_csv(CsvSource).df.columns) =>
         Cardinality({ChosenColumns.label_col, ChosenColumns.x_col, ChosenColumns.y_col}) = 3

\* a table with header c,y,Time: the label is the positional first column,
\* x and y are matched by name; three different columns
C19_Witness ==
  /\ CsvLoaded
  /\ op = "load_csv_file"
  /\ read_csv(CsvSource).df.columns = << <<"c">>, S_y, <<"T","i","m","e">> >>
  /\ NoSharedColumn(read_csv(CsvSource).df.columns)
  /\ ChosenColumns.label_col = <<"c">>
  /\ ChosenColumns.x_col = <<"T","i","m","e">>
  /\ ChosenColumns.y_col = S_y

\* C20: a CSV load of a readable table in which every role is matched by a
\* column name returns, whatever the number of columns.
C20_MatchedRolesLoad ==
  ( /\ op \in {"load_csv_file", "load_stdin"}
    /\ op = "load_csv_file" => arg.file.status = "ok"
    /\ op = "load_stdin" => ~json_loads(arg.text).ok
    /\ read_csv(CsvSource).ok
    /\ \A subs \in {LabelSubs, XSubs, YSubs} :
         \E c \in Columns(read_csv(CsvSource).df) : RoleMatch(c, subs) )
  => ret.kind = "return"

\* C21: when create_scatter_plot colours the points by their y (at most 10
\* distinct y values), the colour-map position of every point, the index
\* used for its y over the number of distinct y values, is at least 0 and
\* less than 1.
C21_ColourPositionBelowOne ==
  (op = "create_scatter_plot" /\ ret.kind = "return") =>
    LET scatter == CallsOf(calls, "ax.scatter")[1] IN
    scatter.opts = <<"viridis">> =>
      \A i \in 1..(Len(scatter.nums) \div 2) :
        /\ 0 <= scatter.nums[2 * i - 1]
        /\ scatter.nums[2 * i - 1] < scatter.nums[2 * i]

\* C22: the format main passes to save_figure is one of svg, png and pdf.
C22_FormatOneOfThree ==
  op = "main" =>
    \A i \in 1..Len(calls) :
      calls[i].fn = "save_figure" => calls[i].opts[1] \in {"svg", "png", "pdf"}

\* C23: in any sequence of create_scatter_plot calls, the style in effect
\* when a call creates its figure is the style the call was given.
C23_StyleInEffectIsArgument ==
  op = "create_scatter_plot" =>
    /\ rc_style = arg.style
    /\ ret.kind = "return" => ret.fig.style = arg.style

====
